---- MODULE Spec2Model ----
(***************************************************************************)
(* Memory coordination layer of super-bot-cleyton: the SQLite ledger       *)
(* (table messages), the ChromaDB collection "messages", the dual write of *)
(* MemoryManager.add_message / add_message_sync, the repair procedures     *)
(* (MemoryManager.check_and_repair and the repair_memory.py script) and    *)
(* the recent-messages read.                                               *)
(*                                                                         *)
(* Concurrency model: coroutines (add_message, check_and_repair,           *)
(* get_recent_messages) run on one asyncio event loop and none of them     *)
(* suspends between its first and last statement, so they exclude each     *)
(* other through the variable loop.  add_message_sync is called from a     *)
(* thread (it takes a threading.Lock) and interleaves with everything.     *)
(* repair_memory.py is a separate process with its own MemoryManager.      *)
(***************************************************************************)
EXTENDS Integers, Sequences, FiniteSets, TLC

\* ---------------------------------------------------------------- bounds
MaxCalls == 2          \* add_message / add_message_sync calls started
MaxPending == 1        \* legacy rows without embedding_id in the initial ledger
MaxTime == 1           \* last instant of the wall clock, in milliseconds
MaxLimit == 2          \* largest limit passed to get_recent_messages

Users == {1}
Chats == {1, 2}
Contents == {"a"}

\* ------------------------------------------------------------- constants
RepairLimit == 100     \* LIMIT of the pending-row select of check_and_repair
MsPerSecond == 1000    \* int(time.time() * 1000); CURRENT_TIMESTAMP has second resolution

AsyncWriters == {"a1"}            \* add_message coroutines of the bot
SyncWriters == {"s1"}             \* add_message_sync threads of the bot
ScriptWriters == {"rs"}           \* add_message_sync called by repair_memory.py
Writers == AsyncWriters \cup SyncWriters \cup ScriptWriters

\* the MemoryManager instance a writer calls
Coordinator(w) == IF w \in ScriptWriters THEN "script" ELSE "bot"
Coordinators == {"bot", "script"}

VARIABLES
    messages,      \* ledger: set of rows of table messages
    next_id,       \* next AUTOINCREMENT id
    collection,    \* vector index: embedding id -> [document, user_id, chat_id]
    now,           \* wall clock, milliseconds
    call,          \* per writer: position and locals of add_message(_sync)
    lock,          \* MemoryManager._lock per coordinator: "free" or its holder
    async_lock,    \* MemoryManager._async_lock per coordinator
    loop,          \* coroutine running on the event loop, or "idle"
    repair,        \* check_and_repair: position, locals and stats
    script,        \* repair_memory.py: position, queue and counters
    ncalls,        \* calls of add_message / add_message_sync started
    committed,     \* history: row ids whose call returned an embedding id
    failed,        \* history: row ids whose call returned None
    observed,      \* history: row ids a read returned while their call was in progress
    context,       \* the last call of the context read path: arguments and result
    tie,           \* order of rows that tie on every ORDER BY key: "asc" or "desc" rowid
    chroma,        \* ChromaManager: _instance, _initialized, _client, persist_directory, _lock
    thread,        \* per thread: position and locals of a MemoryManager using ChromaManager
    opened,        \* directory of every client chromadb.PersistentClient returned so far
    split,         \* DocumentManager._split_text: arguments, start, chunks
    stored         \* the last add_message(_sync) call with its category and importance

vars == <<messages, next_id, collection, now, call, lock, async_lock, loop,
          repair, script, ncalls, committed, failed, observed, context, tie,
          chroma, thread, opened, split, stored>>

\* ------------------------------------------------------------------ ids
\* NULL (and '') embedding_id
NoId == [user |-> 0, ms |-> 0, row |-> 0]

\* f"msg_{user_id}_{timestamp}" with timestamp = int(time.time() * 1000)
EmbeddingId(user_id, t) == [user |-> user_id, ms |-> t, row |-> 0]

\* f"msg_{msg['user_id']}_{int(time.time()*1000)}_{msg['id']}"
RepairEmbeddingId(user_id, t, id) == [user |-> user_id, ms |-> t, row |-> id]

\* CURRENT_TIMESTAMP: the clock truncated to seconds
CurrentTimestamp(t) == t \div MsPerSecond

\* ---------------------------------------------------------------- ledger
Row(id, u, c, x, eid, ts) ==
    [id |-> id, user_id |-> u, chat_id |-> c, content |-> x,
     embedding_id |-> eid, timestamp |-> ts]

RowIds(rows) == {r.id : r \in rows}

\* WHERE embedding_id IS NULL OR embedding_id = ''
Pending(rows) == {r \in rows : r.embedding_id = NoId}

\* SELECT COUNT(*) ... WHERE embedding_id IS NULL OR embedding_id = ''
CountPending == Cardinality(Pending(messages))

\* INSERT INTO messages (...) VALUES (...): one new row with the next id
InsertRow(rows, id, u, c, x, eid, t) ==
    rows \cup {Row(id, u, c, x, eid, CurrentTimestamp(t))}

\* DELETE FROM messages WHERE embedding_id = ?
DeleteByEmbedding(rows, eid) == {r \in rows : r.embedding_id # eid}

\* UPDATE messages SET embedding_id = ? WHERE id = ?
SetEmbedding(rows, id, eid) ==
    {IF r.id = id THEN [r EXCEPT !.embedding_id = eid] ELSE r : r \in rows}

\* ----------------------------------------------------------------- index
Entry(x, u, c) == [document |-> x, user_id |-> u, chat_id |-> c]

\* collection.add(ids=[eid], ...): an id the collection already holds is
\* skipped without an error (PersistentClient semantics)
CollectionAdd(coll, eid, x, u, c) ==
    IF eid \in DOMAIN coll THEN coll
    ELSE [e \in DOMAIN coll \cup {eid} |->
            IF e = eid THEN Entry(x, u, c) ELSE coll[e]]

\* _verify_integrity: SELECT COUNT(*) FROM messages against collection.count()
AuditDiverged == Cardinality(messages) # Cardinality(DOMAIN collection)

\* rows in repair order: ascending id
RECURSIVE SortedById(_)
SortedById(rows) ==
    IF rows = {} THEN <<>>
    ELSE LET m == CHOOSE r \in rows : \A q \in rows : r.id <= q.id
         IN <<m>> \o SortedById(rows \ {m})

Take(s, n) == SubSeq(s, 1, IF Len(s) < n THEN Len(s) ELSE n)

\* ------------------------------------------------------------------ init
\* threads that construct and use a MemoryManager over the ChromaManager
Threads == {"t1", "t2"}

\* class ChromaManager before the first construction: _instance = None,
\* _client = None, _lock free, _initialized = False
NoManager ==
    [instance |-> FALSE, initialized |-> FALSE, client |-> 0,
     persist_directory |-> "none", lock |-> "free"]

\* a thread that has not constructed a MemoryManager yet
IdleThread ==
    [pc |-> "idle", directory |-> "none", op |-> "none", tries |-> <<>>,
     raised |-> "none", client |-> 0, collection |-> 0]

\* _split_text has not been called
NoSplit == [pc |-> "idle"]

\* add_message has not been called
NoStored == [op |-> "none"]

\* the connection manager, the document splitter and the categorizer at rest
side_vars == <<chroma, thread, opened, split, stored>>

SideInit ==
    /\ chroma = NoManager
    /\ thread = [t \in Threads |-> IdleThread]
    /\ opened = <<>>
    /\ split = NoSplit
    /\ stored = NoStored

\* no call of the context read path has been made
NoContext == [op |-> "none"]

IdleCall ==
    [pc |-> "idle", user_id |-> 0, chat_id |-> 0, content |-> "",
     embedding_id |-> NoId, rowid |-> 0, add_failed |-> FALSE,
     before |-> 0, conc |-> FALSE]

IdleRepair ==
    [pc |-> "idle", missing |-> <<>>, embedding_id |-> NoId,
     checked |-> 0, repaired |-> 0, errors |-> 0, status |-> "none",
     selected |-> 0, clean |-> FALSE]

IdleScript ==
    [pc |-> "idle", queue |-> <<>>, count |-> 0, total |-> 0,
     clean |-> FALSE]

\* the two stores agree on every row that carries an embedding id
Linked(rows, coll) ==
    /\ \A r \in rows \ Pending(rows) :
          /\ r.embedding_id \in DOMAIN coll
          /\ coll[r.embedding_id] = Entry(r.content, r.user_id, r.chat_id)
          /\ \A q \in rows : q.embedding_id = r.embedding_id => q = r
    /\ \A e \in DOMAIN coll : \E r \in rows : r.embedding_id = e

\* A ledger file as initialize_db leaves it, possibly holding rows written
\* before embedding ids existed (embedding_id TEXT is nullable).
Init ==
    /\ \E n \in 0..MaxPending :
         /\ messages \in {S \in SUBSET {Row(i, u, c, x, NoId, 0) :
                               i \in 1..n, u \in Users, c \in Chats, x \in Contents} :
                            /\ Cardinality(S) = n
                            /\ RowIds(S) = 1..n}
         /\ next_id = n + 1
    /\ collection = <<>>
    /\ now = 0
    /\ call = [w \in Writers |-> IdleCall]
    /\ lock = [c \in Coordinators |-> "free"]
    /\ async_lock = [c \in Coordinators |-> "free"]
    /\ loop = "idle"
    /\ repair = IdleRepair
    /\ script = IdleScript
    /\ ncalls = 0
    /\ committed = {}
    /\ failed = {}
    /\ observed = {}
    /\ context = NoContext
    /\ tie = "asc"
    /\ SideInit

\* ------------------------------------------------- add_message(_sync)
Busy(w) == call[w].pc # "idle"

\* the other calls in progress when some operation starts overlap with it
Overlapped(c) ==
    [v \in Writers |-> IF c[v].pc # "idle" THEN [c[v] EXCEPT !.conc = TRUE] ELSE c[v]]

OthersActive(w) ==
    \/ \E v \in Writers \ {w} : Busy(v)
    \/ repair.pc # "idle"

StartCall(w, u, c, x) ==
    [Overlapped(call) EXCEPT ![w] =
        [pc |-> "gen", user_id |-> u, chat_id |-> c, content |-> x,
         embedding_id |-> NoId, rowid |-> 0, add_failed |-> FALSE,
         before |-> Cardinality(messages), conc |-> OthersActive(w)]]

\* a pass of a repair procedure is no longer undisturbed
Disturb(r) == [r EXCEPT !.clean = FALSE]

\* async with self._async_lock: the coroutine takes the event loop and the lock
\* (repair_memory.py is run while the bot is stopped)
AddMessageBegin(w) ==
    /\ w \in AsyncWriters
    /\ call[w].pc = "idle"
    /\ loop = "idle"
    /\ script.pc = "idle"
    /\ async_lock[Coordinator(w)] = "free"
    /\ ncalls < MaxCalls
    /\ \E u \in Users, c \in Chats, x \in Contents :
         call' = StartCall(w, u, c, x)
    /\ loop' = w
    /\ async_lock' = [async_lock EXCEPT ![Coordinator(w)] = w]
    /\ ncalls' = ncalls + 1
    /\ UNCHANGED <<messages, next_id, collection, now, lock, repair, script,
                   committed, failed, observed>>
    /\ UNCHANGED <<context, tie>>
    /\ UNCHANGED side_vars

\* with self._lock: a thread of the bot enters add_message_sync
AddMessageSyncBegin(w) ==
    /\ w \in SyncWriters
    /\ call[w].pc = "idle"
    /\ script.pc = "idle"
    /\ lock[Coordinator(w)] = "free"
    /\ ncalls < MaxCalls
    /\ \E u \in Users, c \in Chats, x \in Contents :
         call' = StartCall(w, u, c, x)
    /\ lock' = [lock EXCEPT ![Coordinator(w)] = w]
    /\ ncalls' = ncalls + 1
    /\ repair' = Disturb(repair)
    /\ UNCHANGED <<messages, next_id, collection, now, async_lock, loop, script,
                   committed, failed, observed>>
    /\ UNCHANGED <<context, tie>>
    /\ UNCHANGED side_vars

\* repair_memory.py step 7: memory.add_message_sync(...) for the next message
ScriptAddMessageSync(w) ==
    /\ w \in ScriptWriters
    /\ call[w].pc = "idle"
    /\ script.pc = "loop"
    /\ script.queue # <<>>
    /\ lock[Coordinator(w)] = "free"
    /\ LET msg == Head(script.queue)
       IN call' = StartCall(w, msg.user_id, msg.chat_id, msg.content)
    /\ lock' = [lock EXCEPT ![Coordinator(w)] = w]
    /\ ncalls' = ncalls + 1
    /\ UNCHANGED <<messages, next_id, collection, now, async_lock, loop, repair,
                   script, committed, failed, observed>>
    /\ UNCHANGED <<context, tie>>
    /\ UNCHANGED side_vars

\* a failed store operation inside a call of the script disturbs its pass
Faulted(w) == IF w \in ScriptWriters THEN Disturb(script) ELSE script

\* 1. timestamp = int(time.time() * 1000); embedding_id = f"msg_{user_id}_{timestamp}"
GenerateId(w) ==
    /\ call[w].pc = "gen"
    /\ call' = [call EXCEPT ![w].embedding_id = EmbeddingId(call[w].user_id, now),
                            ![w].pc = "insert"]
    /\ UNCHANGED <<messages, next_id, collection, now, lock, async_lock, loop,
                   repair, script, ncalls, committed, failed, observed>>
    /\ UNCHANGED <<context, tie>>
    /\ UNCHANGED side_vars

\* 3. INSERT INTO messages (..., embedding_id), committed by execute_query;
\*    an exception leaves the ledger unchanged and enters the except block
InsertMessage(w) ==
    /\ call[w].pc = "insert"
    /\ \E ok \in BOOLEAN :
         IF ok
         THEN /\ messages' = InsertRow(messages, next_id, call[w].user_id, call[w].chat_id,
                                       call[w].content, call[w].embedding_id, now)
              /\ next_id' = next_id + 1
              /\ call' = [call EXCEPT ![w].rowid = next_id, ![w].pc = "add"]
              /\ UNCHANGED script
         ELSE /\ call' = [call EXCEPT ![w].pc = "except"]
              /\ script' = Faulted(w)
              /\ UNCHANGED <<messages, next_id>>
    /\ UNCHANGED <<collection, now, lock, async_lock, loop, repair, ncalls,
                   committed, failed, observed>>
    /\ UNCHANGED <<context, tie>>
    /\ UNCHANGED side_vars

\* 4. self.messages_collection.add(documents, metadatas, ids=[embedding_id])
AddToCollection(w) ==
    /\ call[w].pc = "add"
    /\ \E ok \in BOOLEAN :
         IF ok
         THEN /\ collection' = CollectionAdd(collection, call[w].embedding_id,
                                  call[w].content, call[w].user_id, call[w].chat_id)
              /\ call' = [call EXCEPT ![w].pc = "return_id"]
              /\ UNCHANGED script
         ELSE /\ call' = [call EXCEPT ![w].pc = "except", ![w].add_failed = TRUE]
              /\ script' = Faulted(w)
              /\ UNCHANGED collection
    /\ UNCHANGED <<messages, next_id, now, lock, async_lock, loop, repair, ncalls,
                   committed, failed, observed>>
    /\ UNCHANGED <<context, tie>>
    /\ UNCHANGED side_vars

\* except: embedding_id is set and transaction_successful is False, so
\* DELETE FROM messages WHERE embedding_id = ?; a failure of the delete is logged only
RevertInsert(w) ==
    /\ call[w].pc = "except"
    /\ \E ok \in BOOLEAN :
         messages' = IF ok THEN DeleteByEmbedding(messages, call[w].embedding_id)
                     ELSE messages
    /\ call' = [call EXCEPT ![w].pc = "return_none"]
    /\ UNCHANGED <<next_id, collection, now, lock, async_lock, loop, repair, script,
                   ncalls, committed, failed, observed>>
    /\ UNCHANGED <<context, tie>>
    /\ UNCHANGED side_vars

\* leaving the with block releases the lock; the coroutine leaves the event loop
ReleaseLocks(w) ==
    /\ lock' = [lock EXCEPT ![Coordinator(w)] = IF @ = w THEN "free" ELSE @]
    /\ async_lock' = [async_lock EXCEPT ![Coordinator(w)] = IF @ = w THEN "free" ELSE @]
    /\ loop' = IF loop = w THEN "idle" ELSE loop

\* repair_memory.py: count += 1 after add_message_sync returned (it never raises);
\* after the last message the script goes on to its final check
ScriptCounted(w) ==
    IF w \in ScriptWriters
    THEN [script EXCEPT !.count = @ + 1, !.queue = Tail(@),
                        !.pc = IF Len(script.queue) = 1 THEN "verify" ELSE "loop"]
    ELSE script

\* return embedding_id / return None
ReturnFromAdd(w) ==
    /\ call[w].pc \in {"return_id", "return_none"}
    /\ committed' = IF call[w].pc = "return_id" THEN committed \cup {call[w].rowid}
                    ELSE committed
    /\ failed' = IF call[w].pc = "return_none" /\ call[w].rowid # 0
                 THEN failed \cup {call[w].rowid} ELSE failed
    /\ observed' = IF call[w].pc = "return_id" THEN observed \ {call[w].rowid}
                   ELSE observed
    /\ call' = [call EXCEPT ![w] = IdleCall]
    /\ script' = ScriptCounted(w)
    /\ ReleaseLocks(w)
    /\ UNCHANGED <<messages, next_id, collection, now, repair, ncalls>>
    /\ UNCHANGED <<context, tie>>
    /\ UNCHANGED side_vars

\* time.time() / CURRENT_TIMESTAMP advance: the next millisecond or the next second
Tick ==
    /\ \E t \in {now + 1, (now \div MsPerSecond + 1) * MsPerSecond} :
         /\ t <= MaxTime
         /\ now' = t
    /\ UNCHANGED <<messages, next_id, collection, call, lock, async_lock, loop,
                   repair, script, ncalls, committed, failed, observed>>
    /\ UNCHANGED <<context, tie>>
    /\ UNCHANGED side_vars

\* ------------------------------------------------------ check_and_repair
\* 1. SELECT ... WHERE embedding_id IS NULL OR embedding_id = '' LIMIT 100;
\*    an exception of the select ends the pass with status "error"
\*    stats = {"checked": 0, "repaired": 0, "errors": 0, ...}: no statement of
\*    check_and_repair writes stats["checked"]; the number of rows selected
\*    goes to stats["missing_embeddings"]
RepairSelect ==
    /\ repair.pc = "idle"
    /\ loop = "idle"
    /\ script.pc = "idle"
    /\ \E ok \in BOOLEAN :
         IF ok
         THEN LET missing == Take(SortedById(Pending(messages)), RepairLimit)
              IN /\ repair' = [pc |-> IF missing = <<>> THEN "return" ELSE "add",
                               missing |-> missing, embedding_id |-> NoId,
                               checked |-> 0, repaired |-> 0, errors |-> 0,
                               status |-> "success",
                               selected |-> Len(missing),
                               clean |-> /\ \A w \in Writers : ~Busy(w)
                                         /\ Linked(messages, collection)
                                         /\ Len(missing) = CountPending]
                 /\ loop' = "repair"
         ELSE /\ repair' = [IdleRepair EXCEPT !.status = "error"]
              /\ loop' = loop
    /\ call' = Overlapped(call)
    /\ UNCHANGED <<messages, next_id, collection, now, lock, async_lock, script,
                   ncalls, committed, failed, observed>>
    /\ UNCHANGED <<context, tie>>
    /\ UNCHANGED side_vars

\* what the loop does after one message: the next message, or return stats
RepairAdvance(r) ==
    [r EXCEPT !.missing = Tail(@),
              !.pc = IF Len(r.missing) = 1 THEN "return" ELSE "add"]

\* 2. embedding_id = f"msg_{user_id}_{ms}_{id}"; self.messages_collection.add(...);
\*    an exception counts an error and the loop goes on
RepairAdd ==
    /\ repair.pc = "add"
    /\ LET msg == Head(repair.missing)
           eid == RepairEmbeddingId(msg.user_id, now, msg.id)
       IN \E ok \in BOOLEAN :
            IF ok
            THEN /\ collection' = CollectionAdd(collection, eid, msg.content,
                                                msg.user_id, msg.chat_id)
                 /\ repair' = [repair EXCEPT !.embedding_id = eid, !.pc = "update"]
            ELSE /\ repair' = Disturb([RepairAdvance(repair) EXCEPT !.errors = @ + 1])
                 /\ UNCHANGED collection
    /\ UNCHANGED <<messages, next_id, now, call, lock, async_lock, loop, script,
                   ncalls, committed, failed, observed>>
    /\ UNCHANGED <<context, tie>>
    /\ UNCHANGED side_vars

\* UPDATE messages SET embedding_id = ? WHERE id = ?; stats["repaired"] += 1
RepairUpdate ==
    /\ repair.pc = "update"
    /\ LET msg == Head(repair.missing)
       IN \E ok \in BOOLEAN :
            IF ok
            THEN /\ messages' = SetEmbedding(messages, msg.id, repair.embedding_id)
                 /\ repair' = [RepairAdvance(repair) EXCEPT !.repaired = @ + 1]
            ELSE /\ repair' = Disturb([RepairAdvance(repair) EXCEPT !.errors = @ + 1])
                 /\ UNCHANGED messages
    /\ UNCHANGED <<next_id, collection, now, call, lock, async_lock, loop, script,
                   ncalls, committed, failed, observed>>
    /\ UNCHANGED <<context, tie>>
    /\ UNCHANGED side_vars

\* return stats
RepairReturn ==
    /\ repair.pc = "return"
    /\ repair' = IdleRepair
    /\ loop' = "idle"
    /\ UNCHANGED <<messages, next_id, collection, now, call, lock, async_lock, script,
                   ncalls, committed, failed, observed>>
    /\ UNCHANGED <<context, tie>>
    /\ UNCHANGED side_vars

\* ------------------------------------------- repair_memory.py (no --force)
\* rows in the order of the script's select: ORDER BY timestamp
RECURSIVE SortedByTimestamp(_)
SortedByTimestamp(rows) ==
    IF rows = {} THEN <<>>
    ELSE LET m == CHOOSE r \in rows : \A q \in rows :
                     \/ r.timestamp < q.timestamp
                     \/ r.timestamp = q.timestamp /\ r.id <= q.id
         IN <<m>> \o SortedByTimestamp(rows \ {m})

\* 5. SELECT user_id, chat_id, role, content, category, importance FROM messages
\*    WHERE embedding_id IS NULL OR embedding_id = '' ORDER BY timestamp;
\*    with no message to process the script returns; an exception ends it
ScriptSelect ==
    /\ script.pc = "idle"
    /\ ncalls + Cardinality(Pending(messages)) <= MaxCalls
    /\ loop = "idle"
    /\ repair.pc = "idle"
    /\ \A w \in Writers : ~Busy(w)
    /\ \E ok \in BOOLEAN :
         IF ok /\ Pending(messages) # {}
         THEN LET queue == SortedByTimestamp(Pending(messages))
              IN script' = [pc |-> "loop", queue |-> queue, count |-> 0,
                            total |-> Len(queue),
                            clean |-> Linked(messages, collection)]
         ELSE script' = IdleScript
    /\ UNCHANGED <<messages, next_id, collection, now, call, lock, async_lock, loop,
                   repair, ncalls, committed, failed, observed>>
    /\ UNCHANGED <<context, tie>>
    /\ UNCHANGED side_vars

\* final integrity check (counts are printed only) and end of the script
ScriptVerify ==
    /\ script.pc = "verify"
    /\ script' = IdleScript
    /\ UNCHANGED <<messages, next_id, collection, now, call, lock, async_lock, loop,
                   repair, ncalls, committed, failed, observed>>
    /\ UNCHANGED <<context, tie>>
    /\ UNCHANGED side_vars

\* --------------------------------------------------- get_recent_messages
Partition(rows, u, c) == {r \in rows : r.user_id = u /\ r.chat_id = c}

\* ORDER BY timestamp DESC LIMIT n: the possible result sets (rows of equal
\* timestamp come in an order SQL leaves open)
MostRecent(rows, n) ==
    {S \in SUBSET rows :
        /\ Cardinality(S) = IF Cardinality(rows) < n THEN Cardinality(rows) ELSE n
        /\ \A r \in S, q \in rows \ S : r.timestamp >= q.timestamp}

\* rows of calls that have inserted and have neither returned nor run their rollback
InProgress ==
    {call[w].rowid : w \in {v \in Writers : call[v].pc \in {"add", "except", "return_id"}}} \ {0}

\* get_recent_messages(user_id, chat_id, limit): a coroutine; an exception of the
\* ledger is logged and [] is returned
GetRecentMessages ==
    /\ loop = "idle"
    /\ script.pc = "idle"
    /\ \E u \in Users, c \in Chats, limit \in 1..MaxLimit, ok \in BOOLEAN :
         IF ok
         THEN \E S \in MostRecent(Partition(messages, u, c), limit) :
                 observed' = observed \cup (RowIds(S) \cap InProgress)
         ELSE observed' = observed
    /\ UNCHANGED <<messages, next_id, collection, now, call, lock, async_lock, loop,
                   repair, script, ncalls, committed, failed>>
    /\ UNCHANGED <<context, tie>>
    /\ UNCHANGED side_vars

\* ------------------------------------------------------------------ spec
Next ==
    \/ \E w \in Writers : AddMessageBegin(w)
    \/ \E w \in Writers : AddMessageSyncBegin(w)
    \/ \E w \in Writers : ScriptAddMessageSync(w)
    \/ \E w \in Writers : GenerateId(w)
    \/ \E w \in Writers : InsertMessage(w)
    \/ \E w \in Writers : AddToCollection(w)
    \/ \E w \in Writers : RevertInsert(w)
    \/ \E w \in Writers : ReturnFromAdd(w)
    \/ RepairSelect
    \/ RepairAdd
    \/ RepairUpdate
    \/ RepairReturn
    \/ ScriptSelect
    \/ ScriptVerify
    \/ GetRecentMessages
    \/ Tick

Spec == Init /\ [][Next]_vars

\* ---------------------------------------------------------------- claims
\* no add_message(_sync) call and no check_and_repair pass is in progress
Quiescent == (\A w \in Writers : ~Busy(w)) /\ repair.pc = "idle"

\* C1: whenever no call is in progress, every ledger row with a non-empty
\* embedding_id has an index entry with that id whose user_id / chat_id
\* metadata equal the row's.
C1_LinkedRowHasMatchingEntry ==
    Quiescent =>
        \A r \in messages \ Pending(messages) :
            /\ r.embedding_id \in DOMAIN collection
            /\ collection[r.embedding_id].user_id = r.user_id
            /\ collection[r.embedding_id].chat_id = r.chat_id

\* C2: when a call whose index add failed is about to return, the ledger holds
\* no row of that call, and, if nothing ran beside the call, as many rows as
\* before the call.
C2_WriteAtomicity ==
    \A w \in Writers :
        (call[w].pc = "return_none" /\ call[w].add_failed) =>
            /\ call[w].rowid \notin RowIds(messages)
            /\ ~call[w].conc => Cardinality(messages) = call[w].before

\* C3: a row whose call returned an embedding id is never deleted afterwards.
C3_RollbackScope ==
    [][\A id \in committed : id \in RowIds(messages) => id \in RowIds(messages')]_vars

\* C4: no two ledger rows share a non-empty embedding_id.
C4_UniqueVectorIds ==
    \A r, q \in messages :
        (r.embedding_id = q.embedding_id /\ r.embedding_id # NoId) => r = q

\* C5: at most one write of the bot's coordinator is in progress at a time.
C5_WriteSerialization ==
    Cardinality({w \in Writers : Coordinator(w) = "bot" /\ Busy(w)}) <= 1

\* C6: in every state, also in the middle of a write, every non-empty
\* embedding_id of a ledger row is the id of an index entry.
C6_PendingFirst ==
    \A r \in messages \ Pending(messages) : r.embedding_id \in DOMAIN collection

\* C7: whenever no call is in progress, every index entry is the embedding_id
\* of some ledger row.
C7_NoOrphanVector ==
    Quiescent =>
        \A e \in DOMAIN collection : \E r \in messages : r.embedding_id = e

\* C8: a call that is about to return an embedding id has inserted a row that
\* is still in the ledger, its index add did not fail, and the index holds
\* under that id the entry of this call (its document and metadata).
C8_ReturnsIdOnlyIfWritten ==
    \A w \in Writers :
        call[w].pc = "return_id" =>
            /\ ~call[w].add_failed
            /\ call[w].rowid \in RowIds(messages)
            /\ call[w].embedding_id \in DOMAIN collection
            /\ collection[call[w].embedding_id] =
                   Entry(call[w].content, call[w].user_id, call[w].chat_id)

\* C9: no row that a read returned while its call was in progress belongs to
\* a call that ended in failure.
C9_ReadsSeeCommittedOnly == observed \cap failed = {}

\* C10: a repair pass that selected every pending row, started with the stores
\* otherwise in agreement and met no failure and no concurrent write ends with
\* no pending row and with the audit reporting no divergence.
C10_RepairConvergence ==
    /\ (repair.pc = "return" /\ repair.clean) =>
            (CountPending = 0 /\ ~AuditDiverged)
    /\ (script.pc = "verify" /\ script.clean) =>
            (CountPending = 0 /\ ~AuditDiverged)

\* ============================================================= read path
\* MemoryManager.get_recent_messages / get_important_messages /
\* get_relevant_context / get_context_messages and LLMAgent.get_context_messages.
\* A text is one character ("a", "b"); a query is a sequence of characters.
Importances == {3, 4, 5}         \* importance column of the rows written
MinImportance == 4               \* min_importance=4 / importance >= 4
MinRelevance == 3                \* min_relevance_score=0.3, in tenths
MaxRetries == 3                  \* max_retries of _query_chromadb_with_retry
WeekMinutes == 60 * 24 * 7       \* time_window of MemoryManager.get_context_messages
YearMinutes == 365 * 24 * 60     \* time_window of LLMAgent.get_context_messages
WeekMs == WeekMinutes * 60 * MsPerSecond

\* a ledger row with its importance column
Rated(r, imp) ==
    [id |-> r.id, user_id |-> r.user_id, chat_id |-> r.chat_id,
     content |-> r.content, embedding_id |-> r.embedding_id,
     timestamp |-> r.timestamp, importance |-> imp]

Reverse(s) == [i \in 1..Len(s) |-> s[Len(s) + 1 - i]]

ContentsOf(s) == {s[i].content : i \in 1..Len(s)}

IdsOf(s) == {s[i].id : i \in 1..Len(s)}

\* str.strip(): leading and trailing blanks removed
RECURSIVE LStrip(_)
LStrip(q) == IF q # <<>> /\ Head(q) = " " THEN LStrip(Tail(q)) ELSE q

Strip(q) == Reverse(LStrip(Reverse(LStrip(q))))

\* the length test taken on the untrimmed query
QueryTooShort_Untrimmed(q) == q = <<>> \/ Len(q) < 3

\* not query or len(query.strip()) < 3
QueryTooShort(q) == q = <<>> \/ Len(Strip(q)) < 3

\* count_tokens(text) of the LLM client: a deterministic count per text
CountTokens(x) == CASE x = "a" -> 1 [] x = "b" -> 2 [] OTHER -> 3

\* distance of a document to the query text, in tenths: near when the query
\* mentions the document, far otherwise
Distance(q, x) == IF \E i \in 1..Len(q) : q[i] = x THEN 2 ELSE 12

\* 1.0 - min(dist, 1.0), in tenths
Similarity(d) == 10 - (IF d < 10 THEN d ELSE 10)

\* r is placed before q by ORDER BY [importance DESC,] timestamp DESC; rows
\* equal on every key come in the rowid order of the query plan
Precedes(r, q, by_importance, t) ==
    LET same == by_importance => r.importance = q.importance
    IN \/ by_importance /\ r.importance > q.importance
       \/ same /\ r.timestamp > q.timestamp
       \/ same /\ r.timestamp = q.timestamp
               /\ IF t = "asc" THEN r.id <= q.id ELSE r.id >= q.id

RECURSIVE OrderBy(_, _, _)
OrderBy(rows, by_importance, t) ==
    IF rows = {} THEN <<>>
    ELSE LET m == CHOOSE r \in rows : \A q \in rows : Precedes(r, q, by_importance, t)
         IN <<m>> \o OrderBy(rows \ {m}, by_importance, t)

\* SELECT ... WHERE user_id = ? AND chat_id = ? ORDER BY timestamp DESC LIMIT ?
SelectRecent(rows, u, c, limit, t) ==
    Take(OrderBy(Partition(rows, u, c), FALSE, t), limit)

\* LLMAgent._fetch_recent_messages: the same select, reversed(rows)
FetchRecentMessages(rows, u, c, limit, t) ==
    Reverse(SelectRecent(rows, u, c, limit, t))

\* SELECT ... AND importance >= ? ORDER BY importance DESC, timestamp DESC LIMIT ?
GetImportantMessages(rows, u, c, min_importance, limit, t) ==
    Take(OrderBy({r \in Partition(rows, u, c) : r.importance >= min_importance},
                 TRUE, t), limit)

\* LLMAgent._fetch_important_messages:
\* SELECT ... AND importance >= 4 ORDER BY timestamp DESC LIMIT ?
FetchImportantMessages(rows, u, c, limit, t) ==
    Take(OrderBy({r \in Partition(rows, u, c) : r.importance >= MinImportance},
                 FALSE, t), limit)

\* collection.query result order: ascending distance (equal distances in id order)
RECURSIVE NearestFirst(_, _, _)
NearestFirst(ids, q, coll) ==
    IF ids = {} THEN <<>>
    ELSE LET d(e) == Distance(q, coll[e].document)
             m == CHOOSE e \in ids : \A f \in ids :
                     \/ d(e) < d(f)
                     \/ d(e) = d(f) /\ e.ms < f.ms
                     \/ d(e) = d(f) /\ e.ms = f.ms /\ e.row <= f.row
         IN <<m>> \o NearestFirst(ids \ {m}, q, coll)

\* one attempt more than max_retries
QueryChromadbWithRetry_ExtraAttempt(coll, q, u, c, limit, failures) ==
    LET lost == limit <= 0 \/ failures > MaxRetries
        matching == {e \in DOMAIN coll : coll[e].user_id = u /\ coll[e].chat_id = c}
    IN [ids |-> IF lost THEN <<>> ELSE Take(NearestFirst(matching, q, coll), limit),
        queries |-> IF lost THEN MaxRetries ELSE failures + 1,
        resets |-> IF lost THEN MaxRetries - 1 ELSE failures]

\* _query_chromadb_with_retry(query_text, where_filter, limit): up to three
\* attempts; after a failed attempt that is not the last the client is reset;
\* after the last one an empty result is returned.  failures = attempts that
\* raise before one succeeds; n_results <= 0 makes every attempt raise.
QueryChromadbWithRetry(coll, q, u, c, limit, failures) ==
    LET lost == limit <= 0 \/ failures >= MaxRetries
        matching == {e \in DOMAIN coll : coll[e].user_id = u /\ coll[e].chat_id = c}
    IN [ids |-> IF lost THEN <<>> ELSE Take(NearestFirst(matching, q, coll), limit),
        queries |-> IF lost THEN MaxRetries ELSE failures + 1,
        resets |-> IF lost THEN MaxRetries - 1 ELSE failures]

NoSearch == [rows |-> <<>>, queries |-> 0, resets |-> 0]

\* the ids kept by get_relevant_context: score >= min_relevance_score, best
\* first, [:limit]
RelevantIds(coll, q, ids, limit) ==
    LET Kept(e) == Similarity(Distance(q, coll[e].document)) >= MinRelevance
    IN Take(SelectSeq(ids, Kept), limit)

\* the window taken in seconds instead of minutes
WindowStart_Seconds(t, time_window) == CurrentTimestamp(t) - time_window

\* datetime('now', '-' || time_window || ' minutes')
WindowStart(t, time_window) == CurrentTimestamp(t) - time_window * 60

\* SELECT * FROM messages WHERE embedding_id IN (...) [AND timestamp >= ...]
\* ORDER BY importance DESC, timestamp DESC
Hydrate(rows, ids, t, time_window, tb) ==
    OrderBy({r \in rows :
               /\ \E i \in 1..Len(ids) : r.embedding_id = ids[i]
               /\ time_window > 0 => r.timestamp >= WindowStart(t, time_window)},
            TRUE, tb)

\* get_relevant_context(query, user_id, chat_id, limit, time_window): any
\* exception is logged and [] is returned
GetRelevantContext(rows, coll, t, tb, q, u, c, limit, time_window, failures, ledger_ok) ==
    IF QueryTooShort(q) THEN NoSearch
    ELSE LET results == QueryChromadbWithRetry(coll, q, u, c, limit * 2, failures)
             ids == RelevantIds(coll, q, results.ids, limit)
         IN [rows |-> IF ids = <<>> \/ ~ledger_ok THEN <<>>
                      ELSE Hydrate(rows, ids, t, time_window, tb),
             queries |-> results.queries,
             resets |-> results.resets]

\* for msg in s: if msg['content'] not in seen: append, seen.add
RECURSIVE AppendUnseen(_, _, _)
AppendUnseen(s, seen, acc) ==
    IF s = <<>> THEN acc
    ELSE IF Head(s).content \in seen THEN AppendUnseen(Tail(s), seen, acc)
    ELSE AppendUnseen(Tail(s), seen \cup {Head(s).content}, Append(acc, Head(s)))

\* MemoryManager.get_context_messages(user_id, chat_id, query, context_limit).
\* Each helper swallows its own exceptions, so the outer except (fallback to
\* five recent messages) is not reached by a ledger or index failure.
GetContextMessages(rows, coll, t, tb, u, c, q, context_limit, failures, ledger_ok) ==
    LET recent == IF ledger_ok THEN SelectRecent(rows, u, c, context_limit \div 2, tb)
                  ELSE <<>>
        search == IF q # <<>> /\ Len(Strip(q)) > 2
                  THEN GetRelevantContext(rows, coll, t, tb, q, u, c,
                                          context_limit \div 2, WeekMinutes,
                                          failures, ledger_ok)
                  ELSE NoSearch
        semantic == AppendUnseen(search.rows, ContentsOf(recent), <<>>)
        important == IF ledger_ok
                     THEN GetImportantMessages(rows, u, c, MinImportance,
                                               context_limit \div 4, tb)
                     ELSE <<>>
        Fresh(m) == m.content \notin ContentsOf(recent \o semantic)
        all_messages == recent \o semantic \o SelectSeq(important, Fresh)
    IN [result |-> Take(all_messages, context_limit),
        recent |-> recent, hits |-> search.rows, important |-> important,
        queries |-> search.queries, resets |-> search.resets, raised |-> FALSE]

\* the walk going on after a message that does not fit
RECURSIVE WithinBudget_SkipAhead(_, _, _, _, _)
WithinBudget_SkipAhead(s, seen, total_tokens, acc, max_tokens) ==
    IF s = <<>> THEN acc
    ELSE LET msg == Head(s)
             tokens == CountTokens(msg.content)
         IN IF msg.content \in seen
            THEN WithinBudget_SkipAhead(Tail(s), seen, total_tokens, acc, max_tokens)
            ELSE IF total_tokens + tokens <= max_tokens
            THEN WithinBudget_SkipAhead(Tail(s), seen \cup {msg.content},
                                        total_tokens + tokens, Append(acc, msg),
                                        max_tokens)
            ELSE WithinBudget_SkipAhead(Tail(s), seen, total_tokens, acc, max_tokens)

\* the loop of LLMAgent.get_context_messages: contents seen once, within the
\* token budget; the walk stops at the first message that does not fit
RECURSIVE WithinBudget(_, _, _, _, _)
WithinBudget(s, seen, total_tokens, acc, max_tokens) ==
    IF s = <<>> THEN acc
    ELSE LET msg == Head(s)
             tokens == CountTokens(msg.content)
         IN IF msg.content \in seen
            THEN WithinBudget(Tail(s), seen, total_tokens, acc, max_tokens)
            ELSE IF total_tokens + tokens <= max_tokens
            THEN WithinBudget(Tail(s), seen \cup {msg.content},
                              total_tokens + tokens, Append(acc, msg), max_tokens)
            ELSE acc

\* LLMAgent.get_context_messages(user_id, chat_id, query) under
\* Config.MAX_CONTEXT_MESSAGES and Config.MAX_TOKENS
LLMGetContextMessages(rows, coll, t, tb, u, c, q, max_messages, max_tokens, failures, ledger_ok) ==
    LET recent == IF ledger_ok
                  THEN FetchRecentMessages(rows, u, c, max_messages \div 2, tb)
                  ELSE <<>>
        search == IF q # <<>> /\ Len(Strip(q)) > 0
                  THEN GetRelevantContext(rows, coll, t, tb, q, u, c,
                                          max_messages \div 2, YearMinutes,
                                          failures, ledger_ok)
                  ELSE NoSearch
        NotRecent(m) == m.content \notin ContentsOf(recent)
        semantic == SelectSeq(search.rows, NotRecent)
        important == IF ledger_ok
                     THEN FetchImportantMessages(rows, u, c, max_messages \div 4, tb)
                     ELSE <<>>
        all_context == recent \o semantic \o important
    IN [result |-> WithinBudget(all_context, {}, 0, <<>>, max_tokens),
        recent |-> recent, hits |-> search.rows, important |-> important,
        queries |-> search.queries, resets |-> search.resets, raised |-> FALSE]

\* ------------------------------------------------- read-path specification
MaxRows == 2           \* rows written to the ledger
MaxMs == 0             \* last millisecond of a second the clock visits
MaxSeconds == 1        \* last second the clock visits before and after a pause
MaxPauses == 1         \* pauses of the conversation, each longer than a week

ReadContents == {"a", "b"}
Queries == {<<>>, <<" ", "a", "b", " ">>, <<"a", "b", "a">>}
ReadImportances == {3, 5}        \* importance of the rows written
RecentLimits == {1, 2}           \* limit of a recent-messages read
ContextLimits == {1, 2, 4}         \* context_limit / Config.MAX_CONTEXT_MESSAGES
TokenLimits == {1, 3}            \* Config.MAX_TOKENS
Failures == {0, MaxRetries}      \* failing attempts of an index query
Readers == {1}                   \* chat whose context is read

writer_vars == <<call, lock, async_lock, loop, repair, script, ncalls,
                 committed, failed, observed, side_vars>>

InitRead ==
    /\ messages = {}
    /\ next_id = 1
    /\ collection = <<>>
    /\ now = 0
    /\ call = [w \in Writers |-> IdleCall]
    /\ lock = [c \in Coordinators |-> "free"]
    /\ async_lock = [c \in Coordinators |-> "free"]
    /\ loop = "idle"
    /\ repair = IdleRepair
    /\ script = IdleScript
    /\ ncalls = 0
    /\ committed = {}
    /\ failed = {}
    /\ observed = {}
    /\ context = NoContext
    /\ tie \in {"asc", "desc"}
    /\ SideInit

\* add_message(user_id, chat_id, content, category, importance) run to its
\* end with no other call in progress: id, insert, collection.add; when the
\* add raises, DELETE ... WHERE embedding_id = ? and None is returned
WriteMessage(u, c, x, imp, ok, room) ==
    /\ next_id <= room
    /\ LET eid == EmbeddingId(u, now)
           inserted == messages \cup
               {Rated(Row(next_id, u, c, x, eid, CurrentTimestamp(now)), imp)}
       IN /\ messages' = IF ok THEN inserted ELSE DeleteByEmbedding(inserted, eid)
          /\ collection' = IF ok THEN CollectionAdd(collection, eid, x, u, c)
                           ELSE collection
          /\ context' = [op |-> "add", user_id |-> u, chat_id |-> c,
                         content |-> x, rowid |-> next_id, returned |-> ok]
    /\ next_id' = next_id + 1
    /\ UNCHANGED <<now, tie, writer_vars>>

RecordMessage(u, c, x, imp, ok) == WriteMessage(u, c, x, imp, ok, MaxRows)

\* the wall clock: the next millisecond, the next second, or a pause of more
\* than a week
PauseMs == WeekMs + MsPerSecond

ClockVisits(t) ==
    /\ t % MsPerSecond <= MaxMs
    /\ (t % PauseMs) \div MsPerSecond <= MaxSeconds
    /\ t \div PauseMs <= MaxPauses

Later(t0) ==
    {t \in {t0 + 1, (t0 \div MsPerSecond + 1) * MsPerSecond,
            (t0 \div PauseMs + 1) * PauseMs} : ClockVisits(t)}

\* time passes between two calls; the time that passes after a read is part
\* of the next read (ReadMemoryContext)
AdvanceClock ==
    /\ context.op \in {"none", "add"}
    /\ \E t \in Later(now) : now' = t
    /\ UNCHANGED <<messages, next_id, collection, context, tie, writer_vars>>

\* what a read call leaves in context: its arguments, the instant, whether it
\* repeats the previous call at a later instant, and its outcome
Call(op, t, u, c, q, limit, max_tokens, failures, ledger_ok, outcome) ==
    [op |-> op, user_id |-> u, chat_id |-> c, query |-> q, limit |-> limit,
     max_tokens |-> max_tokens, failures |-> failures, ledger_ok |-> ledger_ok,
     at |-> t, again |-> (context.op = op /\ t > now),
     result |-> outcome.result, recent |-> outcome.recent,
     hits |-> outcome.hits, important |-> outcome.important,
     queries |-> outcome.queries, resets |-> outcome.resets,
     raised |-> outcome.raised]

Plain(rows) ==
    [result |-> rows, recent |-> rows, hits |-> <<>>, important |-> <<>>,
     queries |-> 0, resets |-> 0, raised |-> FALSE]

\* A read changes no store, so the reads explored are the first read after a
\* write (or after the start) and the repetition of the last read with the
\* same arguments.
Repeatable(op, u, c, q, limit, max_tokens) ==
    \/ context.op \in {"none", "add"}
    \/ /\ context.op = op
       /\ context.user_id = u /\ context.chat_id = c /\ context.query = q
       /\ context.limit = limit /\ context.max_tokens = max_tokens

\* MemoryManager.get_recent_messages(user_id, chat_id, limit): an exception of
\* the ledger is logged and [] is returned
ReadRecent(u, c, limit, ledger_ok) ==
    /\ Repeatable("get_recent_messages", u, c, <<>>, limit, 0)
    /\ context' = Call("get_recent_messages", now, u, c, <<>>, limit, 0, 0, ledger_ok,
                       Plain(IF ledger_ok
                             THEN SelectRecent(messages, u, c, limit, tie)
                             ELSE <<>>))
    /\ UNCHANGED <<messages, next_id, collection, now, tie, writer_vars>>

\* LLMAgent._fetch_recent_messages(user_id, chat_id, limit)
ReadFetchRecent(u, c, limit, ledger_ok) ==
    /\ Repeatable("_fetch_recent_messages", u, c, <<>>, limit, 0)
    /\ context' = Call("_fetch_recent_messages", now, u, c, <<>>, limit, 0, 0, ledger_ok,
                       Plain(IF ledger_ok
                             THEN FetchRecentMessages(messages, u, c, limit, tie)
                             ELSE <<>>))
    /\ UNCHANGED <<messages, next_id, collection, now, tie, writer_vars>>

\* MemoryManager.get_context_messages(user_id, chat_id, query, context_limit)
\* called now or at a later instant t
ReadMemoryContext(u, c, q, context_limit, failures, ledger_ok) ==
    /\ Repeatable("memory_context", u, c, q, context_limit, 0)
    /\ \E t \in {now} \cup Later(now) :
         /\ now' = t
         /\ context' = Call("memory_context", t, u, c, q, context_limit, 0,
                            failures, ledger_ok,
                            GetContextMessages(messages, collection, t, tie, u, c, q,
                                               context_limit, failures, ledger_ok))
    /\ UNCHANGED <<messages, next_id, collection, tie, writer_vars>>

\* LLMAgent.get_context_messages(user_id, chat_id, query)
ReadAgentContext(u, c, q, max_messages, max_tokens, failures, ledger_ok) ==
    /\ Repeatable("agent_context", u, c, q, max_messages, max_tokens)
    /\ context' = Call("agent_context", now, u, c, q, max_messages, max_tokens,
                       failures, ledger_ok,
                       LLMGetContextMessages(messages, collection, now, tie, u, c, q,
                                             max_messages, max_tokens,
                                             failures, ledger_ok))
    /\ UNCHANGED <<messages, next_id, collection, now, tie, writer_vars>>

NextRead ==
    \/ \E u \in Users, c \in Readers, x \in ReadContents, imp \in ReadImportances :
          RecordMessage(u, c, x, imp, TRUE)
    \/ AdvanceClock
    \/ \E u \in Users, c \in Readers, limit \in RecentLimits, ok \in BOOLEAN :
          ReadRecent(u, c, limit, ok)
    \/ \E u \in Users, c \in Readers, limit \in RecentLimits, ok \in BOOLEAN :
          ReadFetchRecent(u, c, limit, ok)
    \/ \E u \in Users, c \in Readers, q \in Queries, limit \in ContextLimits,
          k \in Failures, ok \in BOOLEAN :
          ReadMemoryContext(u, c, q, limit, k, ok)
    \/ \E u \in Users, c \in Readers, q \in Queries, limit \in ContextLimits,
          max_tokens \in TokenLimits, k \in Failures :
          ReadAgentContext(u, c, q, limit, max_tokens, k, TRUE)

SpecRead == InitRead /\ [][NextRead]_vars

\* the context reads of one chat while the same user also writes in another
NextScope ==
    \/ \E u \in Users, c \in Chats, x \in ReadContents :
          RecordMessage(u, c, x, 3, TRUE)
    \/ AdvanceClock
    \/ \E u \in Users, c \in Readers, q \in Queries, limit \in ContextLimits :
          ReadMemoryContext(u, c, q, limit, 0, TRUE)
    \/ \E u \in Users, c \in Readers, q \in Queries, limit \in ContextLimits,
          max_tokens \in TokenLimits :
          ReadAgentContext(u, c, q, limit, max_tokens, 0, TRUE)

SpecScope == InitRead /\ [][NextScope]_vars

\* a longer conversation of one chat, with every importance: the smallest
\* context_limit with an Important bucket is 4
ImportantRows == MaxRows + 2
ImportantLimit == 4
AmpleTokens == 3                 \* a Config.MAX_TOKENS that holds every content

RecordRated(u, c, x, imp) == WriteMessage(u, c, x, imp, TRUE, ImportantRows)

NextImportant ==
    \/ \E u \in Users, c \in Readers, x \in ReadContents, imp \in Importances :
          RecordRated(u, c, x, imp)
    \/ AdvanceClock
    \/ \E u \in Users, c \in Readers :
          ReadMemoryContext(u, c, <<>>, ImportantLimit, 0, TRUE)
    \/ \E u \in Users, c \in Readers :
          ReadAgentContext(u, c, <<>>, ImportantLimit, AmpleTokens, 0, TRUE)

SpecImportant == InitRead /\ [][NextImportant]_vars

\* ------------------------------------------------------ read-path claims
ContextOps == {"memory_context", "agent_context"}
RecentOps == {"get_recent_messages", "_fetch_recent_messages"}

RECURSIVE TokenSum(_)
TokenSum(s) == IF s = <<>> THEN 0 ELSE CountTokens(Head(s).content) + TokenSum(Tail(s))

\* C11: the tokens of the messages a context read returns sum to at most
\* the token budget in force (Config.MAX_TOKENS), for either implementation
\* of the context read.
C11_BudgetRespect ==
    /\ context.op = "agent_context" =>
          TokenSum(context.result) <= context.max_tokens
    /\ context.op = "memory_context" =>
          \A max_tokens \in TokenLimits : TokenSum(context.result) <= max_tokens

\* positions of content x in a sequence of messages
Positions(s, x) == {i \in 1..Len(s) : s[i].content = x}

\* every content of the three buckets fits the token budget together
BudgetSuffices ==
    context.op = "agent_context" =>
        TokenSum(WithinBudget(context.recent \o context.hits \o context.important,
                              {}, 0, <<>>, 1000000))
          <= context.max_tokens

\* C12: a content that is in both the Recent bucket and the semantic hits
\* appears exactly once in the result of a context read, at the position it
\* has in Recent (the token budget being large enough for every bucket).
C12_DedupLaw ==
    (context.op \in ContextOps /\ BudgetSuffices) =>
        \A x \in ContentsOf(context.recent) \cap ContentsOf(context.hits) :
            /\ Cardinality(Positions(context.result, x)) = 1
            /\ Positions(context.result, x) \subseteq Positions(context.recent, x)

\* C13: a recent-messages read returns the min(limit, n) most recently
\* recorded rows of the partition, oldest first.
C13_RecentOldestFirst ==
    (context.op \in RecentOps /\ context.ledger_ok) =>
        LET P == Partition(messages, context.user_id, context.chat_id)
            k == IF Cardinality(P) < context.limit THEN Cardinality(P)
                 ELSE context.limit
        IN /\ Len(context.result) = k
           /\ IdsOf(context.result) =
                 {r.id : r \in {p \in P : Cardinality({q \in P : q.id > p.id}) < k}}
           /\ \A i, j \in 1..Len(context.result) :
                 i < j => context.result[i].id < context.result[j].id

\* C14: a row with importance >= 4 that has context_limit // 2 or more newer
\* rows in its partition, and fewer than context_limit // 4 rows of
\* importance >= 4 that are as new or newer, is in the result of a context
\* read (its content is), when the token budget holds every content.
C14_ImportanceFilter ==
    (context.op \in ContextOps /\ context.ledger_ok /\ BudgetSuffices) =>
        LET P == Partition(messages, context.user_id, context.chat_id)
        IN \A r \in P :
             (/\ r.importance >= MinImportance
              /\ Cardinality({q \in P : q.timestamp > r.timestamp})
                    >= context.limit \div 2
              /\ Cardinality({q \in P \ {r} : /\ q.importance >= MinImportance
                                              /\ q.timestamp >= r.timestamp})
                    < context.limit \div 4)
             => r.content \in ContentsOf(context.result)

\* the same arguments in two successive calls of
\* MemoryManager.get_context_messages, the ledger answering both
SameCall ==
    /\ context.op = "memory_context" /\ context'.op = "memory_context"
    /\ context.ledger_ok /\ context'.ledger_ok
    /\ context'.user_id = context.user_id /\ context'.chat_id = context.chat_id
    /\ context'.query = context.query /\ context'.limit = context.limit

\* the row is at most a week old at instant t
WithinWeek(r, t) == r.timestamp >= t \div MsPerSecond - 7 * 24 * 60 * 60

\* C15 as stated: two context reads with the same arguments and no write
\* between them return the same messages in the same order, whatever the
\* clock and the index do between the two calls.
C15_IdempotentReads ==
    [][SameCall => context'.result = context.result]_vars

\* C15 amended: two context reads with the same arguments and no write
\* between them return the same messages in the same order, provided the
\* index query ends the same way in both calls (answered, or failed on every
\* attempt) and no message passes the age of one week between them.
C15_IdempotentReadsSameOutcome ==
    [][(/\ SameCall
        /\ (context'.failures >= MaxRetries) = (context.failures >= MaxRetries)
        /\ \A r \in messages : WithinWeek(r, context'.at) = WithinWeek(r, context.at))
       => context'.result = context.result]_vars

\* the call is repeated at a later instant and returns semantic hits
C15_Witness ==
    /\ context.op = "memory_context" /\ context.again /\ context.ledger_ok
    /\ context.hits # <<>> /\ Len(context.result) >= 2
    /\ \A r \in messages : WithinWeek(r, context.at)

\* the Recent bucket followed by the Important rows whose content is not in it
RecentAndImportant ==
    LET Fresh(m) == m.content \notin ContentsOf(context.recent)
    IN context.recent \o SelectSeq(context.important, Fresh)

\* every index query of the call failed, the ledger answered
IndexDown ==
    /\ context.op = "memory_context"
    /\ context.ledger_ok
    /\ context.failures >= MaxRetries
    /\ Len(Strip(context.query)) >= 3

\* C16 as stated: when every index query fails, a context read with a query
\* of 3 or more characters does not raise and returns exactly the Recent and
\* Important buckets, non-empty whenever the partition has a message.
C16_IndexOutageDegrade ==
    IndexDown =>
        /\ ~context.raised
        /\ context.result = RecentAndImportant
        /\ Partition(messages, context.user_id, context.chat_id) # {} =>
              context.result # <<>>

\* C16 amended: when every index query fails, a context read with a query of
\* 3 or more characters does not raise and returns exactly the Recent and
\* Important buckets; the result is non-empty whenever the partition has a
\* message and context_limit is at least 2.
C16_IndexOutageDegradeWithinLimit ==
    IndexDown =>
        /\ ~context.raised
        /\ context.result = RecentAndImportant
        /\ (/\ Partition(messages, context.user_id, context.chat_id) # {}
            /\ context.limit >= 2) => context.result # <<>>

\* every index query failed although the index holds an entry the query matches
C16_Witness ==
    /\ IndexDown /\ context.limit >= 2
    /\ context.queries = MaxRetries /\ context.resets = MaxRetries - 1
    /\ \E e \in DOMAIN collection :
          /\ collection[e].chat_id = context.chat_id
          /\ Distance(context.query, collection[e].document) < 10 - MinRelevance
    /\ context.important # <<>>
    /\ context.result # <<>>

\* C17: a failure of the ledger during a read is surfaced to the caller as
\* an error.
C17_LedgerFailureSurfaced ==
    (context.op \in RecentOps \cup ContextOps /\ ~context.ledger_ok) =>
        context.raised

\* C18: a context read whose query is empty or shorter than 3 characters
\* after trimming performs no index operation (no query, no reset) and
\* returns rows of the Recent and Important buckets only.
C18_ShortQuerySkip ==
    (context.op \in ContextOps /\ Len(Strip(context.query)) < 3) =>
        /\ context.queries = 0 /\ context.resets = 0
        /\ context.hits = <<>>
        /\ IdsOf(context.result) \subseteq
              IdsOf(context.recent) \cup IdsOf(context.important)

\* a padded two-character query, with an index entry the query mentions
C18_Witness ==
    /\ context.op \in ContextOps
    /\ Len(context.query) >= 3 /\ Len(Strip(context.query)) = 2
    /\ \E e \in DOMAIN collection :
          /\ collection[e].chat_id = context.chat_id
          /\ Distance(context.query, collection[e].document) < 10 - MinRelevance
    /\ context.queries = 0
    /\ context.result # <<>>

\* C19: every message a context read returns is a row of the partition
\* (user_id, chat_id) the read was made for.
C19_PartitionScoping ==
    context.op \in ContextOps =>
        \A i \in 1..Len(context.result) :
            /\ context.result[i].user_id = context.user_id
            /\ context.result[i].chat_id = context.chat_id

\* C20: the first recent-messages read (limit >= 1) or context read
\* (context_limit >= 2, budget for every content) of a partition after an
\* add_message call for it returned its id includes the content written.
C20_ReadYourWrites ==
    [][(/\ context.op = "add" /\ context.returned
        /\ context'.op \in RecentOps \cup ContextOps
        /\ context'.user_id = context.user_id /\ context'.chat_id = context.chat_id
        /\ context'.ledger_ok
        /\ context'.limit >= (IF context'.op \in RecentOps THEN 1 ELSE 2)
        /\ context'.op = "agent_context" => context'.max_tokens >= 3)
       => context.content \in ContentsOf(context'.result)]_vars

\* ====================================================== connection manager
\* ChromaManager (chroma_manager.py) as the MemoryManager uses it from several
\* threads: construction, reset_client after a failed query
ConnectRetries == 3              \* @retry_on_exception(max_retries=3)
MaxClients == 2                  \* clients chromadb.PersistentClient returns in all

Dirs == {"D1", "D2"}             \* persist_directory arguments
Errors == {"e1", "e2"}           \* exceptions of chromadb.PersistentClient

core_vars == <<messages, next_id, collection, now, call, lock, async_lock, loop,
               repair, script, ncalls, committed, failed, observed, context, tie>>

InitConn == InitRead /\ tie = "asc"

\* retry_on_exception: for attempt in range(max_retries) is over
RetryExhausted_OneMore(tries) == Len(tries) > ConnectRetries

RetryExhausted(tries) == Len(tries) >= ConnectRetries

\* retry_on_exception: last_exception = e, raised after the loop
LastException(tries) == tries[Len(tries)]

\* ChromaManager.__new__: with cls._lock, the instance is created once
ManagerNew(t, d) ==
    /\ thread[t].pc = "idle"
    /\ chroma.lock = "free"
    /\ chroma' = [chroma EXCEPT !.instance = TRUE]
    /\ thread' = [thread EXCEPT ![t].pc = "init", ![t].directory = d]
    /\ UNCHANGED <<core_vars, opened, split, stored>>

\* ChromaManager.__init__: with self._lock; an initialized singleton returns
\* at once, otherwise persist_directory is set, the directory is made
\* (an OSError leaves the block) and the connection is established
ManagerInit(t) ==
    /\ thread[t].pc = "init"
    /\ chroma.lock = "free"
    /\ IF chroma.initialized
       THEN /\ thread' = [thread EXCEPT ![t].pc = "built"]
            /\ UNCHANGED chroma
       ELSE \E made \in BOOLEAN :
              /\ chroma' = [chroma EXCEPT
                              !.persist_directory = thread[t].directory,
                              !.lock = IF made THEN t ELSE "free"]
              /\ thread' = [thread EXCEPT ![t] =
                              IF made
                              THEN [@ EXCEPT !.pc = "connect", !.op = "init",
                                             !.tries = <<>>, !.raised = "none"]
                              ELSE [IdleThread EXCEPT !.pc = "failed",
                                                      !.directory = thread[t].directory,
                                                      !.raised = "makedirs"]]
    /\ UNCHANGED <<core_vars, opened, split, stored>>

\* one pass of the loop of retry_on_exception around
\* chromadb.PersistentClient(path=self.persist_directory), the lock held:
\* a client ends the loop (__init__ sets _initialized, reset_client returns
\* the client to the MemoryManager); an exception is kept and, after the last
\* pass, raised (MemoryManager.__init__ re-raises, the query retry logs it)
ConnectWithRetry(t) ==
    /\ thread[t].pc = "connect"
    /\ chroma.lock = t
    /\ \E outcome \in {"ok"} \cup Errors :
         LET tries == Append(thread[t].tries, outcome)
             id == Len(opened) + 1
         IN IF outcome = "ok"
            THEN /\ Len(opened) < MaxClients
                 /\ opened' = Append(opened, [directory |-> chroma.persist_directory,
                                              by |-> thread[t].op])
                 /\ chroma' = [chroma EXCEPT
                                 !.client = id,
                                 !.initialized = @ \/ thread[t].op = "init",
                                 !.lock = "free"]
                 /\ thread' = [thread EXCEPT
                                 ![t].tries = tries,
                                 ![t].client = IF thread[t].op = "reset" THEN id ELSE @,
                                 ![t].pc = IF thread[t].op = "init" THEN "built"
                                           ELSE "reset_done"]
            ELSE IF RetryExhausted(tries)
            THEN /\ chroma' = [chroma EXCEPT !.lock = "free"]
                 /\ thread' = [thread EXCEPT ![t] =
                                 IF thread[t].op = "init"
                                 THEN [IdleThread EXCEPT
                                         !.pc = "failed", !.op = "init",
                                         !.directory = thread[t].directory,
                                         !.tries = tries,
                                         !.raised = LastException(tries)]
                                 ELSE [@ EXCEPT !.pc = "ready", !.tries = tries,
                                                !.raised = LastException(tries)]]
                 /\ UNCHANGED opened
            ELSE /\ thread' = [thread EXCEPT ![t].tries = tries]
                 /\ UNCHANGED <<chroma, opened>>
    /\ UNCHANGED <<core_vars, split, stored>>

\* MemoryManager.__init__: self.client = self.chroma_manager.client
TakeClient(t) ==
    /\ thread[t].pc = "built"
    /\ thread' = [thread EXCEPT ![t].client = chroma.client, ![t].pc = "collect"]
    /\ UNCHANGED <<core_vars, chroma, opened, split, stored>>

\* self.chroma_manager.get_or_create_collection("messages"): a collection of
\* the manager's current client. In __init__ an exception is re-raised and no
\* MemoryManager exists; after a reset it is logged and the old collection stays
GetOrCreateCollection(t) ==
    /\ thread[t].pc \in {"collect", "reset_done"}
    /\ \E ok \in BOOLEAN :
         thread' = [thread EXCEPT ![t] =
            IF ok THEN [@ EXCEPT !.collection = chroma.client, !.pc = "ready"]
            ELSE IF thread[t].pc = "collect"
            THEN [IdleThread EXCEPT !.pc = "failed", !.raised = "collection",
                                    !.directory = thread[t].directory]
            ELSE [@ EXCEPT !.pc = "ready"]]
    /\ UNCHANGED <<core_vars, chroma, opened, split, stored>>

\* _query_chromadb_with_retry after a failed query:
\* self.client = self.chroma_manager.reset_client(), which takes the lock and
\* connects again
ResetClient(t) ==
    /\ thread[t].pc = "ready"
    /\ chroma.lock = "free"
    /\ chroma' = [chroma EXCEPT !.lock = t]
    /\ thread' = [thread EXCEPT ![t].pc = "connect", ![t].op = "reset",
                                ![t].tries = <<>>, ![t].raised = "none"]
    /\ UNCHANGED <<core_vars, opened, split, stored>>

NextConn ==
    \/ \E t \in Threads, d \in Dirs : ManagerNew(t, d)
    \/ \E t \in Threads : ManagerInit(t)
    \/ \E t \in Threads : ConnectWithRetry(t)
    \/ \E t \in Threads : TakeClient(t)
    \/ \E t \in Threads : GetOrCreateCollection(t)
    \/ \E t \in Threads : ResetClient(t)

SpecConn == InitConn /\ [][NextConn]_vars

\* the retry loop sleeps between its passes and goes on
FairConn == SpecConn /\ \A t \in Threads : WF_vars(ConnectWithRetry(t))

\* ------------------------------------------------ connection manager claims
\* what one connection attempt of thread t has done so far
ConnectBounded(t) ==
    LET tries == thread[t].tries
    IN /\ Len(tries) <= ConnectRetries
       /\ \A i \in 1..Len(tries) : tries[i] = "ok" => i = Len(tries)
       /\ thread[t].raised \in Errors =>
             /\ Len(tries) = ConnectRetries
             /\ \A i \in 1..Len(tries) : tries[i] \in Errors
             /\ thread[t].raised = tries[Len(tries)]
       /\ (Len(tries) = ConnectRetries /\ tries[Len(tries)] \in Errors) =>
             thread[t].raised = tries[Len(tries)]

\* C22: establishing a connection terminates: chromadb.PersistentClient is
\* called at most 3 times per connection attempt, never again after it
\* returned a client, and after the third exception that last exception is
\* raised to the caller; a thread that is connecting eventually is not.
C22_ConnectTerminates ==
    /\ [](\A t \in Threads : ConnectBounded(t))
    /\ \A t \in Threads : (thread[t].pc = "connect") ~> (thread[t].pc # "connect")

\* a connection attempt gave up after three exceptions, the last one of which
\* differs from the first, and raised it
C22_Witness ==
    \E t \in Threads :
        /\ Len(thread[t].tries) = ConnectRetries
        /\ thread[t].tries[1] # thread[t].tries[ConnectRetries]
        /\ thread[t].raised = thread[t].tries[ConnectRetries]
        /\ thread[t].pc # "connect"

\* the clients some object of the process still refers to: the manager's
\* _client, each MemoryManager's client, and the client behind each
\* messages_collection
Held ==
    ({chroma.client} \cup {thread[t].client : t \in Threads}
                     \cup {thread[t].collection : t \in Threads}) \ {0}

ClientsOn(d) == {i \in Held : opened[i].directory = d}

\* the clients opened by ChromaManager.__init__
FirstTime == {i \in 1..Len(opened) : opened[i].by = "init"}

\* no thread is inside a constructor or a reset
Settled == \A t \in Threads : thread[t].pc \in {"idle", "ready", "failed"}

\* C21: under any interleaving of constructions and reset_client calls, at
\* most one live client per persistence directory is held in the process
\* (taken between calls, not in the middle of one), and the first-time
\* initializers together open exactly one client.
C21_OneLiveConnection ==
    /\ Settled => \A d \in Dirs : Cardinality(ClientsOn(d)) <= 1
    /\ Cardinality(FirstTime) = (IF chroma.initialized THEN 1 ELSE 0)

\* C26: a MemoryManager constructed for persistence directory D works on a
\* client opened on D (its client and the client behind its collection), also
\* when a manager for another directory was created earlier in the process.
C26_RequestedDirectory ==
    \A t \in Threads :
        thread[t].pc = "ready" =>
            /\ opened[thread[t].client].directory = thread[t].directory
            /\ opened[thread[t].collection].directory = thread[t].directory

\* ------------------------------------------------------ retry of the query
\* C23: within one context read the vector-index query is attempted at most
\* twice and the client is reset at most once; when the retry has failed too,
\* the read goes on without semantic hits.
C23_SingleRetry ==
    context.op \in ContextOps =>
        /\ context.queries <= 2
        /\ context.resets <= 1
        /\ (context.queries = 2 /\ context.failures >= 2) => context.hits = <<>>

\* ------------------------------------------------------------ repair claims
\* a step taken by check_and_repair / by repair_memory.py
CheckAndRepairStep ==
    repair.pc # "idle" /\ (repair'.pc # repair.pc \/ repair'.missing # repair.missing)

ScriptStep ==
    script.pc # "idle" /\ \E w \in ScriptWriters : call'[w].pc # call[w].pc

\* row q is row r with at most a vector id filled in where there was none
SameButVectorId(r, q) ==
    /\ q.id = r.id
    /\ q.user_id = r.user_id /\ q.chat_id = r.chat_id
    /\ q.content = r.content /\ q.timestamp = r.timestamp
    /\ q.embedding_id # r.embedding_id => r.embedding_id = NoId

\* C24: a repair pass never inserts or deletes ledger rows and never changes
\* a row's content, owner or conversation: only the vector id of rows that
\* were pending changes, so the row count stays the same.
C24_RepairFrame ==
    [][(CheckAndRepairStep \/ ScriptStep) =>
          /\ Cardinality(messages') = Cardinality(messages)
          /\ \A r \in messages : \E q \in messages' : SameButVectorId(r, q)]_vars

\* ------------------------------------------------------------- audit claim
\* debug_memory_state(user_id, chat_id): COUNT(*) of the partition against the
\* number of ids a filtered collection.query returns; "diverged" when they differ
DebugDiverged(u, c) ==
    Cardinality(Partition(messages, u, c)) #
    Cardinality({e \in DOMAIN collection :
                    collection[e].user_id = u /\ collection[e].chat_id = c})

\* the two stores hold the same messages
StoresAgree ==
    /\ \A r \in messages : r.embedding_id \in DOMAIN collection
    /\ \A e \in DOMAIN collection : \E r \in messages : r.embedding_id = e

\* C25: with no call in progress, the audit (_verify_integrity, or
\* debug_memory_state on every partition) reports no divergence only when
\* every ledger row has a vector entry with its vector id and every vector
\* entry has a ledger row.
C25_AuditSound ==
    Quiescent =>
        /\ ~AuditDiverged => StoresAgree
        /\ (\A u \in Users, c \in Chats : ~DebugDiverged(u, c)) => StoresAgree

\* C28: a repair pass handles every selected pending row once, goes on after
\* a row's index add or ledger update failed, and returns stats with
\* checked = number of rows selected and repaired + errors = checked.
C28_RepairStats ==
    (repair.pc = "return" /\ repair.status = "success") =>
        /\ repair.missing = <<>>
        /\ repair.checked = repair.selected
        /\ repair.repaired + repair.errors = repair.checked

\* ========================================================= document chunks
\* DocumentManager._split_text(text, chunk_size, overlap).  A text is its
\* list of words, text.split(); of a word only whether it ends with
\* '.', '!' or '?' matters (TRUE) or not (FALSE).
MaxWords == 3                    \* words of a text
MaxChunkSize == 3                \* largest chunk_size
MaxChunks == 4                   \* chunks appended before the walk is cut off

RECURSIVE Texts(_)
Texts(n) ==
    IF n = 0 THEN {<<>>}
    ELSE Texts(n - 1) \cup {Append(w, e) : w \in Texts(n - 1), e \in BOOLEAN}

\* words[i] of Python: i counts from 0, a negative i counts from the end
IndexError(words, i) == i >= Len(words) \/ i < -Len(words)

EndsSentence(words, i) == IF i >= 0 THEN words[i + 1] ELSE words[Len(words) + i + 1]

\* while end > start and not words[end-1].endswith(...): end -= 1
RECURSIVE ScanBack(_, _, _)
ScanBack(words, start, end) ==
    IF end <= start THEN [end |-> end, raised |-> FALSE]
    ELSE IF IndexError(words, end - 1) THEN [end |-> end, raised |-> TRUE]
    ELSE IF EndsSentence(words, end - 1) THEN [end |-> end, raised |-> FALSE]
    ELSE ScanBack(words, start, end - 1)

\* one pass of the outer while: the end of the chunk that begins at start, and
\* the start of the next chunk, start = end - overlap
NextChunk(words, chunk_size, overlap, start) ==
    LET far == start + chunk_size
        scan == IF far < Len(words) THEN ScanBack(words, start, far)
                ELSE [end |-> far, raised |-> FALSE]
        end == IF far < Len(words) /\ scan.end = start THEN far ELSE scan.end
    IN [end |-> end, raised |-> scan.raised, start |-> end - overlap]

\* add_document calls self._split_text(content, chunk_size, chunk_overlap):
\* words = text.split(); chunks = []; start = 0
SplitText(words, chunk_size, overlap) ==
    /\ split.pc = "idle"
    /\ split' = [pc |-> "loop", words |-> words, chunk_size |-> chunk_size,
                 overlap |-> overlap, start |-> 0, starts |-> <<>>]
    /\ UNCHANGED <<core_vars, chroma, thread, opened, stored>>

\* while start < len(words): ... chunks.append(chunk); start = end - overlap
\* (starts keeps the start index of every chunk appended)
SplitStep ==
    /\ split.pc = "loop"
    /\ split.start < Len(split.words)
    /\ Len(split.starts) < MaxChunks
    /\ LET next == NextChunk(split.words, split.chunk_size, split.overlap, split.start)
       IN split' = IF next.raised THEN [split EXCEPT !.pc = "raised"]
                   ELSE [split EXCEPT !.starts = Append(@, split.start),
                                      !.start = next.start]
    /\ UNCHANGED <<core_vars, chroma, thread, opened, stored>>

\* return chunks
SplitReturn ==
    /\ split.pc = "loop"
    /\ ~(split.start < Len(split.words))
    /\ split' = [split EXCEPT !.pc = "done"]
    /\ UNCHANGED <<core_vars, chroma, thread, opened, stored>>

NextSplit ==
    \/ \E words \in Texts(MaxWords), chunk_size \in 1..MaxChunkSize :
          \E overlap \in 0..(chunk_size - 1) : SplitText(words, chunk_size, overlap)
    \/ SplitStep
    \/ SplitReturn

SpecSplit == InitConn /\ [][NextSplit]_vars

\* C29: for every text and every chunk_size > overlap >= 0 the walk of
\* _split_text makes progress: no exception, the start index of each chunk is
\* greater than that of the chunk before, and the next start is greater than
\* the last, so that the loop ends and add_document returns a document id.
C29_SplitProgress ==
    split.pc # "idle" =>
        /\ split.pc # "raised"
        /\ \A i \in 1..(Len(split.starts) - 1) : split.starts[i] < split.starts[i + 1]
        /\ (split.pc = "loop" /\ split.starts # <<>>) =>
               split.start > split.starts[Len(split.starts)]

\* ============================================== category and importance
\* add_message / add_message_sync with their optional category and
\* importance: an argument is <<>> (None) or <<value>>.  A content is its
\* list of words.
None == <<>>
Some(v) == <<v>>

StoredContents ==
    {<<"obra">>,
     <<"x", "x", "x", "x", "x">>,
     <<"custo", "x", "x", "x", "obra">>,
     <<"x", "urgente", "x", "custo", "x">>}
CategoryArgs == {None, Some("tecnico"), Some("geral")}
ImportanceArgs == {None, Some(1), Some(5)}

Mentions(content, word) == \E i \in 1..Len(content) : content[i] = word

\* categorize_message(content): fewer than 5 words give ('geral', 2);
\* otherwise importance 4 with a keyword of 'importante', else 3, and the
\* first category of the keyword table with a keyword in the content, else
\* 'geral' (of the table: diario_obra / 'obra', financeiro / 'custo',
\* importante / 'urgente')
CategorizeMessage(content) ==
    IF Len(content) < 5 THEN [category |-> "geral", importance |-> 2]
    ELSE [category |-> IF Mentions(content, "obra") THEN "diario_obra"
                       ELSE IF Mentions(content, "custo") THEN "financeiro"
                       ELSE "geral",
          importance |-> IF Mentions(content, "urgente") THEN 4 ELSE 3]

\* step 2 of add_message: if category is None or importance is None:
\*     category, importance = await self.categorize_message(content, ...)
\* step 2 of add_message_sync: each None gets its default, 'geral' and 3
Categorized(sync, content, category, importance) ==
    IF sync
    THEN [category |-> IF category = None THEN "geral" ELSE category[1],
          importance |-> IF importance = None THEN 3 ELSE importance[1]]
    ELSE IF category = None \/ importance = None
    THEN CategorizeMessage(content)
    ELSE [category |-> category[1], importance |-> importance[1]]

\* add_message(_sync)(user_id, chat_id, content, role, category, importance):
\* the INSERT stores category and importance, collection.add echoes category
\* in the metadata; when the call fails nothing stays and None is returned
StoreMessage(sync, content, category, importance, ok) ==
    /\ LET final == Categorized(sync, content, category, importance)
       IN stored' = [op |-> IF sync THEN "add_message_sync" ELSE "add_message",
                     content |-> content, category |-> category,
                     importance |-> importance, returned |-> ok,
                     row |-> IF ok THEN Some(final) ELSE None,
                     metadata |-> IF ok THEN Some([category |-> final.category])
                                  ELSE None]
    /\ UNCHANGED <<core_vars, chroma, thread, opened, split>>

NextStore ==
    \E sync \in BOOLEAN, content \in StoredContents, category \in CategoryArgs,
       importance \in ImportanceArgs, ok \in BOOLEAN :
        StoreMessage(sync, content, category, importance, ok)

SpecStore == InitConn /\ [][NextStore]_vars

\* C30: a category or importance passed to add_message / add_message_sync
\* is the one stored in the ledger row, and the category the one echoed in
\* the vector entry's metadata, also when the other argument is missing.
C30_SuppliedValuesKept ==
    (stored.op # "none" /\ stored.returned) =>
        /\ stored.category # None =>
              /\ stored.row[1].category = stored.category[1]
              /\ stored.metadata[1].category = stored.category[1]
        /\ stored.importance # None =>
              stored.row[1].importance = stored.importance[1]

\* ------------------------------------------------------- budget assembly
\* the messages of s whose content no earlier message of s has
RECURSIVE FirstOccurrences(_, _)
FirstOccurrences(s, n) ==
    IF n = 0 THEN <<>>
    ELSE LET before == FirstOccurrences(s, n - 1)
         IN IF \E j \in 1..(n - 1) : s[j].content = s[n].content
            THEN before ELSE Append(before, s[n])

\* Recent + Semantic + Important of a context read, each content once
Deduplicated(ctx) ==
    LET all == ctx.recent \o ctx.hits \o ctx.important
    IN FirstOccurrences(all, Len(all))

\* the longest prefix of d whose token counts sum to at most max_tokens
LongestPrefixWithin(d, max_tokens) ==
    LET fits == {k \in 0..Len(d) : TokenSum(SubSeq(d, 1, k)) <= max_tokens}
    IN SubSeq(d, 1, CHOOSE k \in fits : \A j \in fits : j <= k)

\* C27: the token-budget assembly of LLMAgent.get_context_messages stops at
\* the first entry that would exceed the budget: its result is the longest
\* prefix of the deduplicated Recent + Semantic + Important whose token
\* counts sum to at most MAX_TOKENS, and nothing after the first entry that
\* does not fit is included, even if it would fit.
C27_StopAtFirstOverBudget ==
    context.op = "agent_context" =>
        context.result = LongestPrefixWithin(Deduplicated(context), context.max_tokens)

\* an assembly that stopped at an entry over the budget although a later
\* entry would still have fitted
C27_Witness ==
    /\ context.op = "agent_context"
    /\ LET d == Deduplicated(context)
           n == Len(context.result)
       IN /\ n + 1 < Len(d)
          /\ context.result = SubSeq(d, 1, n)
          /\ TokenSum(context.result) + CountTokens(d[n + 1].content) > context.max_tokens
          /\ \E i \in (n + 2)..Len(d) :
                TokenSum(context.result) + CountTokens(d[i].content) <= context.max_tokens

====
